---- MODULE Spec2Model ----
(***************************************************************************)
(* The interview bot: the three request handlers of main.py                *)
(* (start_interview, submit_response, get_recruiter_report) and the        *)
(* service functions of services/ai_services.py they call, run by one      *)
(* cooperative event loop.  A handler keeps the loop from the moment it is *)
(* resumed until its next awaited operation that really suspends; the      *)
(* variable running names the request that holds the loop.                 *)
(*                                                                         *)
(* Texts on which the code computes (transcripts, the raw question list)   *)
(* are sequences of one-character strings; opaque texts are strings.       *)
(***************************************************************************)
EXTENDS Integers, Sequences, FiniteSets, TLC

\* ------------------------------------------------------------------ bounds
MaxResponses == 2
MaxPolls == 1
MaxHandles == 1
MaxRawLen == 4

\* The request slots.  Two requests in flight give every pairwise
\* interleaving of the handlers at their suspension points.
Req == {1, 2}

\* ------------------------------------------------------------------ inputs
Roles == {"Backend Engineer", "Designer"}
Filenames == {"a.webm", "b.webm"}
Intros == {"Welcome"}
Audios == {"mp3"}
Transcripts == {<<>>, <<"a">>}
Evaluations == {"report"}
RawQuestions ==
  { <<"1", "x", "\n", "2", "y">>,
    <<"H", "i", ":", "\n", " ", "1", "x", " ", "\n", "\n", "n", "o">> }

\* ------------------------------------------------------------ text helpers
IsSpace(c) == c \in {" ", "\n", "\t", "\r"}

\* The decimal digits 0-9.
IsDecimal(c) == c \in {"0", "1", "2", "3", "4", "5", "6", "7", "8", "9"}

\* str.isdigit(): the decimal digits and the other Unicode digit
\* characters, such as the superscript digits.
IsDigit(c) == IsDecimal(c) \/ c \in {"²", "³", "¹"}

RECURSIVE LStrip(_)
LStrip(s) ==
  IF s = <<>> THEN s
  ELSE IF IsSpace(Head(s)) THEN LStrip(Tail(s)) ELSE s

RECURSIVE RStrip(_)
RStrip(s) ==
  IF s = <<>> THEN s
  ELSE IF IsSpace(s[Len(s)]) THEN RStrip(SubSeq(s, 1, Len(s) - 1)) ELSE s

\* str.strip()
Strip(s) == RStrip(LStrip(s))

\* sep.join(list)
RECURSIVE Join(_, _)
Join(sep, list) ==
  IF list = <<>> THEN <<>>
  ELSE IF Len(list) = 1 THEN list[1]
  ELSE list[1] \o sep \o Join(sep, Tail(list))

\* s.split(sep) for a one-character sep: always at least one piece
RECURSIVE Split(_, _)
Split(s, sep) ==
  IF s = <<>> THEN << <<>> >>
  ELSE IF Head(s) = sep THEN << <<>> >> \o Split(Tail(s), sep)
  ELSE LET rest == Split(Tail(s), sep)
       IN  << <<Head(s)>> \o rest[1] >> \o Tail(rest)

\* KeepNumbered with a fault: the digit test is made on the untrimmed line
\* (q and q[0].isdigit()), and the untrimmed line is kept.
RECURSIVE KeepNumberedUntrimmed(_)
KeepNumberedUntrimmed(lines) ==
  IF lines = <<>> THEN <<>>
  ELSE LET q == Head(lines)
       IN  IF q # <<>> /\ IsDigit(q[1])
           THEN <<q>> \o KeepNumberedUntrimmed(Tail(lines))
           ELSE KeepNumberedUntrimmed(Tail(lines))

RECURSIVE KeepNumbered(_)
KeepNumbered(lines) ==
  IF lines = <<>> THEN <<>>
  ELSE LET q == Strip(Head(lines))
       IN  IF q # <<>> /\ IsDigit(q[1])
           THEN <<q>> \o KeepNumbered(Tail(lines))
           ELSE KeepNumbered(Tail(lines))

\* [q.strip() for q in questions_raw.split('\n') if q.strip() and q.strip()[0].isdigit()]
ParseQuestions(questions_raw) == KeepNumbered(Split(questions_raw, "\n"))

\* base64.b64encode(response.audio_content).decode('utf-8')
B64(audio) == "b64:" \o audio

\* not full_transcription or not full_transcription.strip()
IsBlank(full_transcription) ==
  full_transcription = <<>> \/ Strip(full_transcription) = <<>>

\* ------------------------------------------------------------ dict helpers
EmptyDict == [k \in {} |-> <<>>]

DictGet(d, k, default) == IF k \in DOMAIN d THEN d[k] ELSE default

DictSet(d, k, v) == [x \in DOMAIN d \cup {k} |-> IF x = k THEN v ELSE d[x]]

\* ---------------------------------------------------------------- messages
NoValidResponses == "No valid responses were submitted for this interview."
ReportErrorMessage ==
  "Could not generate the evaluation due to a server error. Please check the logs."
StartErrorMessage == "Could not generate interview content due to an API error."
SubmitErrorMessage == "Failed to process the video response."
DefaultRoleTitle == "N/A"

\* ------------------------------------------------------------------- state
VARIABLES
  interview_data,  \* main.py: the module-level dict holding the one session
  files,           \* the local paths that exist (the temp_<filename> files)
  remote,          \* names of the handles that are live in the remote file store
  running,         \* the request holding the event loop, 0 when the loop is free
  pc,              \* per request: where its handler stands
  loc,             \* per request: the handler's locals and its call record
  returned         \* transcripts returned with success since the last successful start

vars == <<interview_data, files, remote, running, pc, loc, returned>>

\* gemini_file.state.name: the code tests for "PROCESSING" and "FAILED";
\* READY stands for every other state the service reports.
States == {"PROCESSING", "READY", "FAILED"}

NoFile == [name |-> 0, state |-> "NONE"]
NoResult == [kind |-> "none", text |-> <<>>, err |-> ""]
Return(text) == [kind |-> "return", text |-> text, err |-> ""]
Raise(err) == [kind |-> "raise", text |-> <<>>, err |-> err]
NoTask == [st |-> "none", raw |-> <<>>]
NoContent == [introduction |-> "", questions |-> <<>>, greetingAudio |-> "None"]
NoResponse ==
  [status |-> 0, error |-> "", transcription |-> <<>>, content |-> NoContent,
   role_title |-> "", evaluation |-> ""]

InitLoc ==
  [kind |-> "none",
   role_title |-> "",
   intro_task |-> "none",          \* "none", "pending", "failed" or the text
   questions_task |-> NoTask,      \* st: "none", "pending", "failed", "ok"
   greeting_audio_b64 |-> "None",
   filename |-> "",
   gemini_file |-> NoFile,
   polls |-> 0,
   pending |-> NoResult,           \* what transcribe is about to return or raise
                                   \* when it enters its finally block
   outcome |-> NoResult,           \* what the caller of transcribe observes
   uploaded |-> 0,                 \* the handle name upload_file returned
   deletes |-> 0,                  \* delete_file requests issued by this call
   delete_name |-> 0,              \* the name the delete_file request was given
   delete_ok |-> FALSE,            \* the delete_file request succeeded
   extract_state |-> "NONE",       \* handle state passed to generate_content
   caught |-> "",                  \* the exception an except clause caught
   appended |-> FALSE,             \* the append reached interview_data
   full_transcription |-> <<>>,
   evaluate_calls |-> 0,           \* calls of evaluate_transcription
   chain_calls |-> 0,              \* calls of evaluation_chain.ainvoke
   response |-> NoResponse]

\* interview_data = {}
Init ==
  /\ interview_data = EmptyDict
  /\ files = {}
  /\ remote = {}
  /\ running = 0
  /\ pc = [r \in Req |-> "idle"]
  /\ loc = [r \in Req |-> InitLoc]
  /\ returned = <<>>

\* The loop hands control to a new or suspended handler only when it is free.
LoopFree == running = 0

\* A new request gets a free slot and its handler starts running.
Accept(r) ==
  /\ LoopFree
  /\ pc[r] = "idle"

\* video_path = f"temp_{video.filename}"
VideoPath(filename) == "temp_" \o filename

SubmitPcs == {"read", "upload", "poll", "finally", "transcribed"}

InFlightSubmits == Cardinality({r \in Req : pc[r] \in SubmitPcs})

\* --------------------------------------------------------- start_interview
\* StartNew with a fault: the responses of the previous interview are kept.
StartNewKeepingResponses(d, role_title, content) ==
  DictSet(DictSet(DictSet(d, "role_title", role_title),
                  "questions", content.questions),
          "responses", DictGet(d, "responses", <<>>))

\* interview_data['role_title'] = ...; ['questions'] = ...; ['responses'] = []
StartNew(d, role_title, content) ==
  DictSet(DictSet(DictSet(d, "role_title", role_title),
                  "questions", content.questions),
          "responses", <<>>)

\* The handler runs to asyncio.gather, which starts both chains and suspends.
StartInterview(r, role_title) ==
  /\ Accept(r)
  /\ pc' = [pc EXCEPT ![r] = "gather"]
  /\ loc' = [loc EXCEPT ![r] = [InitLoc EXCEPT !.kind = "start",
                                               !.role_title = role_title,
                                               !.intro_task = "pending",
                                               !.questions_task.st = "pending"]]
  /\ UNCHANGED <<interview_data, files, remote, running, returned>>

\* intro_chain.ainvoke(...) completes: the text, or an error
IntroChainDone(r) ==
  /\ LoopFree
  /\ pc[r] = "gather"
  /\ loc[r].intro_task = "pending"
  /\ \E res \in Intros \cup {"failed"} :
       loc' = [loc EXCEPT ![r].intro_task = res]
  /\ UNCHANGED <<interview_data, files, remote, running, pc, returned>>

\* question_chain.ainvoke(...) completes: the raw text, or an error
QuestionChainDone(r) ==
  /\ LoopFree
  /\ pc[r] = "gather"
  /\ loc[r].questions_task.st = "pending"
  /\ \/ \E raw \in RawQuestions :
          loc' = [loc EXCEPT ![r].questions_task = [st |-> "ok", raw |-> raw]]
     \/ loc' = [loc EXCEPT ![r].questions_task.st = "failed"]
  /\ UNCHANGED <<interview_data, files, remote, running, pc, returned>>

GatherFailed(r) ==
  loc[r].intro_task = "failed" \/ loc[r].questions_task.st = "failed"

GatherSucceeded(r) ==
  /\ loc[r].intro_task \notin {"pending", "failed"}
  /\ loc[r].questions_task.st = "ok"

\* GatherRaise with a fault: the handler has stored the role title before the
\* generation failed.
GatherRaiseAfterStore(r) ==
  /\ LoopFree
  /\ pc[r] = "gather"
  /\ GatherFailed(r)
  /\ pc' = [pc EXCEPT ![r] = "done"]
  /\ loc' = [loc EXCEPT ![r].response =
               [NoResponse EXCEPT !.status = 500, !.error = StartErrorMessage],
                        ![r].caught = "GenerationError"]
  /\ interview_data' = DictSet(interview_data, "role_title", loc[r].role_title)
  /\ running' = r
  /\ UNCHANGED <<files, remote, returned>>

\* await asyncio.gather(...) raises as soon as one chain has failed;
\* start_interview's except turns it into the 500 response.
GatherRaise(r) ==
  /\ LoopFree
  /\ pc[r] = "gather"
  /\ GatherFailed(r)
  /\ pc' = [pc EXCEPT ![r] = "done"]
  /\ loc' = [loc EXCEPT ![r].response =
               [NoResponse EXCEPT !.status = 500, !.error = StartErrorMessage],
                        ![r].caught = "GenerationError"]
  /\ running' = r
  /\ UNCHANGED <<interview_data, files, remote, returned>>

\* GatherReturn with a fault: the handler goes on as soon as the introduction
\* text is there, without waiting for the questions.
GatherReturnEarly(r) ==
  /\ LoopFree
  /\ pc[r] = "gather"
  /\ ~GatherFailed(r)
  /\ loc[r].intro_task # "pending"
  /\ pc' = [pc EXCEPT ![r] = "tts"]
  /\ running' = r
  /\ UNCHANGED <<interview_data, files, remote, loc, returned>>

\* await asyncio.gather(...) returns both texts; the handler goes on without
\* suspending (text_to_speech has no awaited operation in it).
GatherReturn(r) ==
  /\ LoopFree
  /\ pc[r] = "gather"
  /\ ~GatherFailed(r)
  /\ GatherSucceeded(r)
  /\ pc' = [pc EXCEPT ![r] = "tts"]
  /\ running' = r
  /\ UNCHANGED <<interview_data, files, remote, loc, returned>>

\* TextToSpeech with a fault: no try/except, so a synthesis failure leaves
\* generate_interview_content as an exception and start_interview answers 500.
TextToSpeechUnguarded(r) ==
  /\ running = r
  /\ pc[r] = "tts"
  /\ \/ /\ \E audio \in Audios :
             loc' = [loc EXCEPT ![r].greeting_audio_b64 = B64(audio)]
        /\ pc' = [pc EXCEPT ![r] = "store"]
     \/ /\ loc' = [loc EXCEPT ![r].caught = "SynthesisError",
                              ![r].response =
                                 [NoResponse EXCEPT !.status = 500,
                                                    !.error = StartErrorMessage]]
        /\ pc' = [pc EXCEPT ![r] = "done"]
  /\ UNCHANGED <<interview_data, files, remote, running, returned>>

\* text_to_speech(intro_text): the encoded audio, or None on any exception
TextToSpeech(r) ==
  /\ running = r
  /\ pc[r] = "tts"
  /\ \/ \E audio \in Audios :
          loc' = [loc EXCEPT ![r].greeting_audio_b64 = B64(audio)]
     \/ loc' = [loc EXCEPT ![r].greeting_audio_b64 = "None",
                           ![r].caught = "SynthesisError"]
  /\ pc' = [pc EXCEPT ![r] = "store"]
  /\ UNCHANGED <<interview_data, files, remote, running, returned>>

\* StoreContent with a fault: only the role title is stored before the
\* handler answers.
StoreContentTorn(r) ==
  /\ running = r
  /\ pc[r] = "store"
  /\ LET content == [introduction |-> loc[r].intro_task,
                     questions |-> ParseQuestions(loc[r].questions_task.raw),
                     greetingAudio |-> loc[r].greeting_audio_b64]
     IN  /\ interview_data' =
              DictSet(interview_data, "role_title", loc[r].role_title)
         /\ loc' = [loc EXCEPT ![r].response =
                      [NoResponse EXCEPT !.status = 200, !.content = content]]
  /\ returned' = <<>>
  /\ pc' = [pc EXCEPT ![r] = "done"]
  /\ UNCHANGED <<files, remote, running>>

\* The rest of generate_interview_content and of start_interview's try block.
StoreContent(r) ==
  /\ running = r
  /\ pc[r] = "store"
  /\ LET content == [introduction |-> loc[r].intro_task,
                     questions |-> ParseQuestions(loc[r].questions_task.raw),
                     greetingAudio |-> loc[r].greeting_audio_b64]
     IN  /\ interview_data' = StartNew(interview_data, loc[r].role_title, content)
         /\ loc' = [loc EXCEPT ![r].response =
                      [NoResponse EXCEPT !.status = 200, !.content = content]]
  /\ returned' = <<>>
  /\ pc' = [pc EXCEPT ![r] = "done"]
  /\ UNCHANGED <<files, remote, running>>

\* ---------------------------------------------------------- submit_response
\* open(video_path, "wb") creates the file or truncates the one that is there
Open(fs, path) == fs \cup {path}

\* LocalCleanup with a fault: the file is never removed.
LocalCleanupSkipped(fs, path) == fs

\* finally: if os.path.exists(video_path): os.remove(video_path)
LocalCleanup(fs, path) == IF path \in fs THEN fs \ {path} ELSE fs

\* AppendResponse with a fault: the transcript is inserted at the front.
PrependResponse(d, text) ==
  IF "responses" \in DOMAIN d
  THEN DictSet(d, "responses", <<text>> \o d["responses"])
  ELSE d

\* interview_data.get('responses', []).append(transcribed_text)
AppendResponse(d, text) ==
  IF "responses" \in DOMAIN d
  THEN DictSet(d, "responses", Append(d["responses"], text))
  ELSE d

\* SessionAfterSubmit with a fault: the append is made before the outcome of
\* the transcription is looked at, so a failed one appends an empty text.
SessionAfterSubmitAlways(d, result) == AppendResponse(d, result.text)

\* The append is the statement after the await in the try block: it runs
\* when transcribe_video_file returned and is skipped when anything raised.
SessionAfterSubmit(d, result) ==
  IF result.kind = "return" THEN AppendResponse(d, result.text) ELSE d

\* The end of the handler: the success response after the append, or the
\* except branch's 500 response; then the finally block.
SubmitEnd(r, result, fs) ==
  LET path == VideoPath(loc[r].filename)
      ok == result.kind = "return"
  IN  /\ interview_data' = SessionAfterSubmit(interview_data, result)
      /\ returned' =
           IF ok /\ "responses" \in DOMAIN interview_data
           THEN Append(returned, result.text)
           ELSE returned
      /\ files' = LocalCleanup(fs, path)
      /\ loc' = [loc EXCEPT
           ![r].response =
              IF ok
              THEN [NoResponse EXCEPT !.status = 200,
                                      !.transcription = result.text]
              ELSE [NoResponse EXCEPT !.status = 500,
                                      !.error = SubmitErrorMessage],
           ![r].appended = ok /\ "responses" \in DOMAIN interview_data,
           ![r].caught = result.err]
      /\ pc' = [pc EXCEPT ![r] = "done"]
      /\ running' = r

\* The handler opens the file and suspends in await video.read().
SubmitResponse(r, filename) ==
  /\ Accept(r)
  /\ Len(DictGet(interview_data, "responses", <<>>)) + InFlightSubmits < MaxResponses
  /\ pc' = [pc EXCEPT ![r] = "read"]
  /\ loc' = [loc EXCEPT ![r] = [InitLoc EXCEPT !.kind = "submit",
                                               !.filename = filename]]
  /\ files' = Open(files, VideoPath(filename))
  /\ UNCHANGED <<interview_data, remote, running, returned>>

\* open() itself raises: nothing was created by this request.
SubmitOpenFails(r, filename) ==
  /\ Accept(r)
  /\ loc' = [loc EXCEPT ![r] =
       [InitLoc EXCEPT !.kind = "submit",
                       !.filename = filename,
                       !.response = [NoResponse EXCEPT !.status = 500,
                                                       !.error = SubmitErrorMessage],
                       !.caught = "OpenError"]]
  /\ files' = LocalCleanup(files, VideoPath(filename))
  /\ pc' = [pc EXCEPT ![r] = "done"]
  /\ running' = r
  /\ UNCHANGED <<interview_data, remote, returned>>

\* await video.read() returns and buffer.write() writes the bytes; the
\* handler then calls transcribe_video_file, which never suspends.
VideoWritten(r) ==
  /\ LoopFree
  /\ pc[r] = "read"
  /\ pc' = [pc EXCEPT ![r] = "upload"]
  /\ running' = r
  /\ UNCHANGED <<interview_data, files, remote, loc, returned>>

\* video.read() or buffer.write() raises partway through.
VideoWriteFails(r) ==
  /\ LoopFree
  /\ pc[r] = "read"
  /\ SubmitEnd(r, Raise("WriteError"), files)
  /\ UNCHANGED remote

\* -------------------------------------------------- transcribe_video_file
\* The name the remote store gives a new upload: the least one not live.
FreshName == CHOOSE n \in 1..MaxHandles :
               n \notin remote /\ \A m \in 1..(n - 1) : m \in remote

\* gemini_file = genai.upload_file(path=video_path)
UploadFile(r) ==
  /\ running = r
  /\ pc[r] = "upload"
  /\ \/ /\ VideoPath(loc[r].filename) \in files
        /\ remote # 1..MaxHandles
        /\ \E s \in States :
             loc' = [loc EXCEPT ![r].gemini_file = [name |-> FreshName, state |-> s],
                                ![r].uploaded = FreshName]
        /\ remote' = remote \cup {FreshName}
        /\ pc' = [pc EXCEPT ![r] = "poll"]
     \/ /\ loc' = [loc EXCEPT ![r].pending = Raise("UploadError")]
        /\ pc' = [pc EXCEPT ![r] = "finally"]
        /\ UNCHANGED remote
  /\ UNCHANGED <<interview_data, files, running, returned>>

\* GetFile with a fault: an if in place of the while, so the handle is
\* queried once and the extraction is requested whatever state came back.
GetFileOnce(r) ==
  /\ running = r
  /\ pc[r] = "poll"
  /\ loc[r].gemini_file.state = "PROCESSING"
  /\ \/ \E s \in States :
          /\ s = "PROCESSING" => loc[r].polls < MaxPolls
          /\ loc' = [loc EXCEPT ![r].gemini_file.state = s,
                                ![r].pending = Raise("ExtractError")]
     \/ loc' = [loc EXCEPT ![r].pending = Raise("PollError")]
  /\ pc' = [pc EXCEPT ![r] = "finally"]
  /\ UNCHANGED <<interview_data, files, remote, running, returned>>

\* while gemini_file.state.name == "PROCESSING":
\*     time.sleep(2); gemini_file = genai.get_file(gemini_file.name)
GetFile(r) ==
  /\ running = r
  /\ pc[r] = "poll"
  /\ loc[r].gemini_file.state = "PROCESSING"
  /\ \/ /\ \E s \in States :
             /\ s = "PROCESSING" => loc[r].polls < MaxPolls
             /\ loc' = [loc EXCEPT ![r].gemini_file.state = s,
                                   ![r].polls = IF s = "PROCESSING" THEN @ + 1 ELSE @]
        /\ UNCHANGED pc
     \/ /\ loc' = [loc EXCEPT ![r].pending = Raise("PollError")]
        /\ pc' = [pc EXCEPT ![r] = "finally"]
  /\ UNCHANGED <<interview_data, files, remote, running, returned>>

\* if gemini_file.state.name == "FAILED": raise Exception(...)
RaiseFailed(r) ==
  /\ running = r
  /\ pc[r] = "poll"
  /\ loc[r].gemini_file.state = "FAILED"
  /\ loc' = [loc EXCEPT ![r].pending = Raise("Gemini file processing failed.")]
  /\ pc' = [pc EXCEPT ![r] = "finally"]
  /\ UNCHANGED <<interview_data, files, remote, running, returned>>

\* MayExtract with a fault: the FAILED test is missing.
MayExtractUnlessProcessing(state) == state # "PROCESSING"

\* The loop and the FAILED test let the extraction request through.
MayExtract(state) == state # "PROCESSING" /\ state # "FAILED"

\* response = direct_gemini_model.generate_content([..., gemini_file])
\* return response.text
GenerateContent(r) ==
  /\ running = r
  /\ pc[r] = "poll"
  /\ MayExtract(loc[r].gemini_file.state)
  /\ \E res \in {Return(t) : t \in Transcripts} \cup {Raise("ExtractError")} :
       loc' = [loc EXCEPT ![r].pending = res,
                          ![r].extract_state = loc[r].gemini_file.state]
  /\ pc' = [pc EXCEPT ![r] = "finally"]
  /\ UNCHANGED <<interview_data, files, remote, running, returned>>

\* Finally with a fault: the delete is issued after a successful extraction
\* only (a delete at the end of the try block instead of a finally block).
FinallyOnReturnOnly(r) ==
  /\ running = r
  /\ pc[r] = "finally"
  /\ IF loc[r].gemini_file # NoFile /\ loc[r].pending.kind = "return"
     THEN /\ remote' = remote \ {loc[r].gemini_file.name}
          /\ loc' = [loc EXCEPT ![r].deletes = @ + 1,
                                ![r].delete_name = loc[r].gemini_file.name,
                                ![r].delete_ok = TRUE,
                                ![r].outcome = loc[r].pending]
     ELSE /\ loc' = [loc EXCEPT ![r].outcome = loc[r].pending]
          /\ UNCHANGED remote
  /\ pc' = [pc EXCEPT ![r] = "transcribed"]
  /\ UNCHANGED <<interview_data, files, running, returned>>

\* finally: if gemini_file: genai.delete_file(gemini_file.name)
\* An exception raised in the finally block replaces the pending return
\* value or exception.  A delete request that fails may or may not have
\* removed the handle remotely.
Finally(r) ==
  /\ running = r
  /\ pc[r] = "finally"
  /\ IF loc[r].gemini_file # NoFile
     THEN \/ /\ remote' = remote \ {loc[r].gemini_file.name}
             /\ loc' = [loc EXCEPT ![r].deletes = @ + 1,
                                   ![r].delete_name = loc[r].gemini_file.name,
                                   ![r].delete_ok = TRUE,
                                   ![r].outcome = loc[r].pending]
          \/ /\ remote' \in {remote, remote \ {loc[r].gemini_file.name}}
             /\ loc' = [loc EXCEPT ![r].deletes = @ + 1,
                                   ![r].delete_name = loc[r].gemini_file.name,
                                   ![r].outcome = Raise("DeleteError")]
     ELSE /\ loc' = [loc EXCEPT ![r].outcome = loc[r].pending]
          /\ UNCHANGED remote
  /\ pc' = [pc EXCEPT ![r] = "transcribed"]
  /\ UNCHANGED <<interview_data, files, running, returned>>

\* Back in submit_response with what transcribe_video_file returned or raised.
SubmitFinish(r) ==
  /\ running = r
  /\ pc[r] = "transcribed"
  /\ SubmitEnd(r, loc[r].outcome, files)
  /\ UNCHANGED remote

\* ---------------------------------------------------- get_recruiter_report
\* FullTranscription with a fault: the responses are joined by one line
\* break.
FullTranscriptionSingleBreak(d) ==
  Join(<<"\n">>, DictGet(d, "responses", <<>>))

\* full_transcription = "\n\n".join(interview_data.get('responses', []))
FullTranscription(d) == Join(<<"\n", "\n">>, DictGet(d, "responses", <<>>))

\* role_title = interview_data.get('role_title', 'N/A')
RoleTitle(d) == DictGet(d, "role_title", DefaultRoleTitle)

\* ShortCircuit with a fault: only the empty transcript is caught (no strip()).
ShortCircuitOnEmpty(full_transcription) == full_transcription = <<>>

\* evaluate_transcription returns the fixed text without awaiting anything
ShortCircuit(full_transcription) == IsBlank(full_transcription)

ReportResponse(role_title, evaluation) ==
  [NoResponse EXCEPT !.status = 200, !.role_title = role_title,
                     !.evaluation = evaluation]

\* RecruiterReport with a fault: the handler takes the responses out of the
\* session as it reads them.
RecruiterReportDraining(r) ==
  /\ Accept(r)
  /\ LET full_transcription == FullTranscription(interview_data)
         role_title == RoleTitle(interview_data)
         called == [InitLoc EXCEPT !.kind = "report",
                                   !.role_title = role_title,
                                   !.full_transcription = full_transcription,
                                   !.evaluate_calls = 1]
     IN  IF ShortCircuit(full_transcription)
         THEN /\ loc' = [loc EXCEPT ![r] =
                   [called EXCEPT !.response =
                      ReportResponse(role_title, NoValidResponses)]]
              /\ pc' = [pc EXCEPT ![r] = "done"]
              /\ running' = r
         ELSE /\ loc' = [loc EXCEPT ![r] = [called EXCEPT !.chain_calls = 1]]
              /\ pc' = [pc EXCEPT ![r] = "evaluate"]
              /\ UNCHANGED running
  /\ interview_data' =
       IF "responses" \in DOMAIN interview_data
       THEN DictSet(interview_data, "responses", <<>>)
       ELSE interview_data
  /\ UNCHANGED <<files, remote, returned>>

\* The handler reads the session and calls evaluate_transcription, which
\* either returns at once or suspends in evaluation_chain.ainvoke.
RecruiterReport(r) ==
  /\ Accept(r)
  /\ LET full_transcription == FullTranscription(interview_data)
         role_title == RoleTitle(interview_data)
         called == [InitLoc EXCEPT !.kind = "report",
                                   !.role_title = role_title,
                                   !.full_transcription = full_transcription,
                                   !.evaluate_calls = 1]
     IN  IF ShortCircuit(full_transcription)
         THEN /\ loc' = [loc EXCEPT ![r] =
                   [called EXCEPT !.response =
                      ReportResponse(role_title, NoValidResponses)]]
              /\ pc' = [pc EXCEPT ![r] = "done"]
              /\ running' = r
         ELSE /\ loc' = [loc EXCEPT ![r] = [called EXCEPT !.chain_calls = 1]]
              /\ pc' = [pc EXCEPT ![r] = "evaluate"]
              /\ UNCHANGED running
  /\ UNCHANGED <<interview_data, files, remote, returned>>

\* evaluation_chain.ainvoke(...) completes with the report text ...
EvaluationChainDone(r) ==
  /\ LoopFree
  /\ pc[r] = "evaluate"
  /\ \E evaluation \in Evaluations :
       loc' = [loc EXCEPT ![r].response =
                 ReportResponse(loc[r].role_title, evaluation)]
  /\ pc' = [pc EXCEPT ![r] = "done"]
  /\ running' = r
  /\ UNCHANGED <<interview_data, files, remote, returned>>

\* EvaluationChainFails with a fault: no except branch, the error becomes the
\* framework's 500 response.
EvaluationChainFailsUncaught(r) ==
  /\ LoopFree
  /\ pc[r] = "evaluate"
  /\ loc' = [loc EXCEPT ![r].response = [NoResponse EXCEPT !.status = 500],
                        ![r].caught = "EvaluationError"]
  /\ pc' = [pc EXCEPT ![r] = "done"]
  /\ running' = r
  /\ UNCHANGED <<interview_data, files, remote, returned>>

\* ... or raises, and the except branch renders the fixed message.
EvaluationChainFails(r) ==
  /\ LoopFree
  /\ pc[r] = "evaluate"
  /\ loc' = [loc EXCEPT ![r].response =
               ReportResponse(loc[r].role_title, ReportErrorMessage),
                        ![r].caught = "EvaluationError"]
  /\ pc' = [pc EXCEPT ![r] = "done"]
  /\ running' = r
  /\ UNCHANGED <<interview_data, files, remote, returned>>

\* ------------------------------------------------------------------- system
\* The handler has returned its response (pc = "done" is the moment the
\* request completes); the loop is released and the slot serves the next
\* request.
Retire(r) ==
  /\ running = r
  /\ pc[r] = "done"
  /\ pc' = [pc EXCEPT ![r] = "idle"]
  /\ loc' = [loc EXCEPT ![r] = InitLoc]
  /\ running' = 0
  /\ UNCHANGED <<interview_data, files, remote, returned>>

Next ==
  \E r \in Req :
    \/ \E role_title \in Roles : StartInterview(r, role_title)
    \/ IntroChainDone(r)
    \/ QuestionChainDone(r)
    \/ GatherRaise(r)
    \/ GatherReturn(r)
    \/ TextToSpeech(r)
    \/ StoreContent(r)
    \/ \E filename \in Filenames : SubmitResponse(r, filename)
    \/ \E filename \in Filenames : SubmitOpenFails(r, filename)
    \/ VideoWritten(r)
    \/ VideoWriteFails(r)
    \/ UploadFile(r)
    \/ GetFile(r)
    \/ RaiseFailed(r)
    \/ GenerateContent(r)
    \/ Finally(r)
    \/ SubmitFinish(r)
    \/ RecruiterReport(r)
    \/ EvaluationChainDone(r)
    \/ EvaluationChainFails(r)
    \/ Retire(r)

Spec == Init /\ [][Next]_vars

\* ----------------------------------------------------------------- fairness
\* A handler that holds the loop runs on: every step between two suspension
\* points is synchronous code, and every external call returns or raises.
RunStep(r) ==
  \/ TextToSpeech(r)
  \/ UploadFile(r)
  \/ GetFile(r)
  \/ RaiseFailed(r)
  \/ GenerateContent(r)
  \/ Finally(r)
  \/ SubmitFinish(r)
  \/ Retire(r)

\* A handler suspended in await video.read() is resumed: the read completes
\* and the loop runs ready tasks in first-in first-out order, so the task is
\* not passed over for ever by the other requests.
ResumeRead(r) == VideoWritten(r) \/ VideoWriteFails(r)

\* StoreContent(r) is enabled exactly where r holds the loop at "store", and
\* every StoreContent(r) step leaves "store": weak fairness of StoreContent(r)
\* is that r is not there for ever.
StoreRuns(r) == []<>~(running = r /\ pc[r] = "store")

Fairness ==
  \A r \in Req : WF_vars(RunStep(r)) /\ StoreRuns(r) /\ SF_vars(ResumeRead(r))

LiveSpec == Spec /\ Fairness

\* ------------------------------------------------- the question-list parser
\* Every raw text of at most MaxRawLen characters that question_chain can
\* return: a decimal digit, a superscript digit, a letter, a space and a
\* line break.
ParseAlphabet == {"1", "²", "a", " ", "\n"}

RawTexts == UNION {[1..n -> ParseAlphabet] : n \in 0..MaxRawLen}

\* A start_interview request whose two chains and speech synthesis have
\* completed, with any raw text, about to parse it and store the content.
InitParse ==
  /\ interview_data = EmptyDict
  /\ files = {}
  /\ remote = {}
  /\ running = 1
  /\ pc = [r \in Req |-> IF r = 1 THEN "store" ELSE "idle"]
  /\ returned = <<>>
  /\ \E raw \in RawTexts, role_title \in Roles, intro \in Intros :
       loc = [r \in Req |->
                IF r = 1
                THEN [InitLoc EXCEPT !.kind = "start",
                                     !.role_title = role_title,
                                     !.intro_task = intro,
                                     !.questions_task = [st |-> "ok", raw |-> raw],
                                     !.greeting_audio_b64 = "None",
                                     !.caught = "SynthesisError"]
                ELSE InitLoc]

NextParse == \E r \in Req : StoreContent(r) \/ Retire(r)

SpecParse == InitParse /\ [][NextParse]_vars

\* ================================================================== claims

\* transcribe_video_file has just returned or raised in request r.
Transcribed(r) == pc[r] = "transcribed"

C2_DeleteFailureNeverMasks ==
  \A r \in Req : Transcribed(r) => loc[r].outcome = loc[r].pending

\* C3: when a submit_response request completes, its temporary file
\* temp_<filename> does not exist, whatever the outcome.
C3_LocalFileRemoved ==
  \A r \in Req :
    pc[r] = "done" /\ loc[r].kind = "submit" =>
      VideoPath(loc[r].filename) \notin files

\* C3 witness: writing the file raised partway and the request has completed.
C3_Witness ==
  \E r \in Req :
    /\ pc[r] = "done"
    /\ loc[r].kind = "submit"
    /\ loc[r].caught = "WriteError"
    /\ loc[r].response.status = 500
    /\ VideoPath(loc[r].filename) \notin files

\* C4: when both chains succeeded and speech synthesis failed, the
\* start_interview request completes with status 200, greetingAudio None,
\* the introduction text and the parsed questions.
C4_SynthesisFailureTolerated ==
  \A r \in Req :
    pc[r] = "done" /\ loc[r].kind = "start" /\ loc[r].caught = "SynthesisError" =>
      /\ loc[r].response.status = 200
      /\ loc[r].response.content.greetingAudio = "None"
      /\ loc[r].response.content.introduction \in Intros
      /\ loc[r].response.content.introduction = loc[r].intro_task
      /\ loc[r].response.content.questions =
           ParseQuestions(loc[r].questions_task.raw)

\* C4 witness: a completed start_interview whose synthesis step failed.
C4_Witness ==
  \E r \in Req :
    /\ pc[r] = "done"
    /\ loc[r].kind = "start"
    /\ loc[r].caught = "SynthesisError"
    /\ loc[r].response.status = 200
    /\ loc[r].response.content.questions # <<>>

\* C5: a start_interview request one of whose chains failed can only end
\* with the 500 response, and neither that step nor any earlier step of the
\* request changes interview_data.
C5_FailedStartLeavesSession ==
  [][\A r \in Req :
       /\ (pc[r] = "gather" /\ GatherFailed(r) /\ pc'[r] # "gather") =>
            /\ pc'[r] = "done"
            /\ loc'[r].response.status = 500
            /\ loc'[r].response.error = StartErrorMessage
            /\ interview_data' = interview_data
       /\ (pc'[r] = "gather" /\ (pc[r] # "gather" \/ loc'[r] # loc[r])) =>
            interview_data' = interview_data]_vars

\* C5 witness: a start_interview for another role has failed and the
\* session of the earlier interview, with a response in it, is still there.
C5_Witness ==
  \E r \in Req :
    /\ pc[r] = "done"
    /\ loc[r].kind = "start"
    /\ loc[r].caught = "GenerationError"
    /\ loc[r].response.status = 500
    /\ "responses" \in DOMAIN interview_data
    /\ interview_data["responses"] # <<>>
    /\ interview_data["role_title"] # loc[r].role_title

\* C6: the extraction request is only ever issued against a handle last
\* seen READY; a transcript is returned only for such a handle; a handle
\* seen FAILED always makes transcribe_video_file raise.
C6_ExtractOnlyWhenReady ==
  \A r \in Req :
    /\ loc[r].extract_state \in {"NONE", "READY"}
    /\ pc[r] \in {"finally", "transcribed", "done"} =>
         /\ loc[r].pending.kind = "return" =>
              loc[r].gemini_file.state = "READY" /\ loc[r].extract_state = "READY"
         /\ loc[r].outcome.kind = "return" => loc[r].gemini_file.state = "READY"
         /\ loc[r].gemini_file.state = "FAILED" =>
              /\ loc[r].pending.kind = "raise"
              /\ loc[r].extract_state = "NONE"
              /\ pc[r] # "finally" => loc[r].outcome.kind = "raise"

\* C6 witness: the handle became READY after a poll and the transcript
\* was returned.
C6_Witness ==
  \E r \in Req :
    /\ Transcribed(r)
    /\ loc[r].polls >= 1
    /\ loc[r].gemini_file.state = "READY"
    /\ loc[r].outcome.kind = "return"

\* Every character of s is whitespace (the empty text included).
AllSpace(s) == \A i \in 1..Len(s) : IsSpace(s[i])

\* C7: a report request whose transcript is empty or all whitespace issues
\* no evaluation_chain call and completes at once with the fixed text.
C7_BlankTranscriptShortCircuits ==
  \A r \in Req :
    loc[r].kind = "report" /\ AllSpace(loc[r].full_transcription) =>
      /\ loc[r].chain_calls = 0
      /\ pc[r] = "done"
      /\ loc[r].response.status = 200
      /\ loc[r].response.evaluation = NoValidResponses

\* C7 witness: the session holds two empty responses, so the joined
\* transcript is the two line breaks of the separator.
C7_Witness ==
  \E r \in Req :
    /\ pc[r] = "done"
    /\ loc[r].kind = "report"
    /\ "responses" \in DOMAIN interview_data
    /\ interview_data["responses"] = << <<>>, <<>> >>
    /\ loc[r].full_transcription = <<"\n", "\n">>
    /\ loc[r].chain_calls = 0
    /\ loc[r].response.evaluation = NoValidResponses

\* C8: when the evaluation call fails, the report request completes
\* normally and its evaluation is the fixed fallback message.
C8_EvaluationFailureFallsBack ==
  \A r \in Req :
    pc[r] = "done" /\ loc[r].kind = "report" /\ loc[r].caught = "EvaluationError" =>
      /\ loc[r].response.status = 200
      /\ loc[r].response.evaluation = ReportErrorMessage
      /\ loc[r].response.role_title = loc[r].role_title

\* C8 witness: a report request whose evaluation call failed has completed.
C8_Witness ==
  \E r \in Req :
    /\ pc[r] = "done"
    /\ loc[r].kind = "report"
    /\ loc[r].chain_calls = 1
    /\ loc[r].caught = "EvaluationError"
    /\ loc[r].response.status = 200

C10_ReportReadsOnly ==
  [][\A r \in Req :
       /\ (loc'[r].kind = "report" /\ pc'[r] # pc[r]) =>
            interview_data' = interview_data
       /\ (pc[r] = "idle" /\ loc'[r].kind = "report") =>
            /\ loc'[r].evaluate_calls = 1
            /\ loc'[r].role_title = RoleTitle(interview_data)
            /\ loc'[r].full_transcription = FullTranscription(interview_data)
            /\ ~AllSpace(loc'[r].full_transcription) =>
                 loc'[r].chain_calls = 1 /\ pc'[r] = "evaluate"]_vars

\* C10 witness: two report requests over the same session are in flight,
\* each with its own evaluation call, and their arguments are the same.
C10_Witness ==
  \E r, q \in Req :
    /\ r # q
    /\ pc[r] = "evaluate" /\ pc[q] = "evaluate"
    /\ loc[r].chain_calls = 1 /\ loc[q].chain_calls = 1
    /\ loc[r].role_title = loc[q].role_title
    /\ loc[r].full_transcription = loc[q].full_transcription
    /\ loc[r].full_transcription = FullTranscription(interview_data)
    /\ Len(DictGet(interview_data, "responses", <<>>)) = 2

\* ---- C11: the parsed questions, stated on the positions of the raw text

\* The positions of the line breaks of raw.
Breaks(raw) == {i \in 1..Len(raw) : raw[i] = "\n"}

\* The position of the k-th line break; 0 before the text, Len + 1 after it.
BreakAt(raw, k) ==
  IF k = 0 THEN 0
  ELSE IF k > Cardinality(Breaks(raw)) THEN Len(raw) + 1
  ELSE CHOOSE i \in Breaks(raw) :
         Cardinality({j \in Breaks(raw) : j <= i}) = k

\* The k-th line of raw, without its line break.
LineAt(raw, k) == SubSeq(raw, BreakAt(raw, k - 1) + 1, BreakAt(raw, k) - 1)

\* A line from its first to its last character that is not whitespace.
Trimmed(line) ==
  LET inked == {i \in 1..Len(line) : ~IsSpace(line[i])}
  IN  IF inked = {} THEN <<>>
      ELSE SubSeq(line,
                  CHOOSE i \in inked : \A j \in inked : i <= j,
                  CHOOSE i \in inked : \A j \in inked : j <= i)

TrimmedLines(raw) ==
  [k \in 1..(Cardinality(Breaks(raw)) + 1) |-> Trimmed(LineAt(raw, k))]

StartsWithDecimal(t) == t # <<>> /\ IsDecimal(t[1])

StartsWithDigit(t) == t # <<>> /\ IsDigit(t[1])

\* A start_interview request has completed with its content.
StartSucceeded(r) ==
  pc[r] = "done" /\ loc[r].kind = "start" /\ loc[r].response.status = 200

\* C11, as stated: the questions are, in order, exactly the trimmed lines
\* of the raw text that are not empty and begin with a decimal digit.
C11_KeepsDecimalLines ==
  \A r \in Req :
    StartSucceeded(r) =>
      loc[r].response.content.questions =
        SelectSeq(TrimmedLines(loc[r].questions_task.raw), StartsWithDecimal)

\* C11, amended: the questions are, in order, exactly the trimmed lines of
\* the raw text that are not empty and begin with a character str.isdigit
\* accepts (a decimal digit or another Unicode digit such as a superscript);
\* every entry is non-empty and begins with such a character; any number of
\* entries, none included, is let through.
C11_KeepsDigitLines ==
  \A r \in Req :
    StartSucceeded(r) =>
      LET questions == loc[r].response.content.questions
      IN  /\ questions =
               SelectSeq(TrimmedLines(loc[r].questions_task.raw), StartsWithDigit)
          /\ \A i \in 1..Len(questions) :
               /\ questions[i] # <<>>
               /\ IsDigit(questions[i][1])
               /\ ~IsSpace(questions[i][Len(questions[i])])
          /\ interview_data["questions"] = questions

\* C11 witness: a text whose first line is dropped and whose second line is
\* kept without the spaces around it.
C11_Witness ==
  \E r \in Req :
    /\ StartSucceeded(r)
    /\ loc[r].questions_task.raw = <<"a", "\n", " ", "1">>
    /\ loc[r].response.content.questions = << <<"1">> >>

\* A submit_response request has completed with the success response.
SubmitSucceeded(r) ==
  pc[r] = "done" /\ loc[r].kind = "submit" /\ loc[r].response.status = 200

\* C12: a submit_response request that completes with success has appended
\* its transcript to the session's responses, whether or not a
\* start_interview has succeeded before.
C12_SuccessMeansAppended ==
  \A r \in Req :
    SubmitSucceeded(r) =>
      /\ "responses" \in DOMAIN interview_data
      /\ interview_data["responses"] # <<>>
      /\ interview_data["responses"][Len(interview_data["responses"])] =
           loc[r].response.transcription

\* transcribe_video_file is running in request r: uploading, polling or
\* sleeping between polls, extracting, deleting.
TranscribePcs == {"upload", "poll", "finally"}

\* C13: while a request is inside transcribe_video_file, the loop is free
\* for the others: a new request can be accepted, and a request whose
\* awaited operation has completed can be resumed.
C13_TranscribeDoesNotBlock ==
  \A r \in Req :
    pc[r] \in TranscribePcs =>
      \A q \in Req \ {r} :
        /\ pc[q] = "idle" => ENABLED RecruiterReport(q)
        /\ pc[q] = "evaluate" => ENABLED EvaluationChainDone(q)
        /\ pc[q] = "read" => ENABLED VideoWritten(q)

\* text_to_speech has been called in start_interview request r.
SynthesisStarted(r) ==
  /\ loc[r].kind = "start"
  /\ \/ pc[r] \in {"tts", "store"}
     \/ loc[r].caught = "SynthesisError"
     \/ loc[r].greeting_audio_b64 # "None"
     \/ loc[r].response.status = 200

\* C14: while generate_interview_content waits in gather both chains have
\* been started; text_to_speech is called only when both chains have
\* completed successfully, and never in a request one of whose chains failed.
C14_SynthesisAfterBothChains ==
  \A r \in Req :
    /\ pc[r] = "gather" =>
         loc[r].intro_task # "none" /\ loc[r].questions_task.st # "none"
    /\ SynthesisStarted(r) =>
         /\ loc[r].intro_task \in Intros
         /\ loc[r].questions_task.st = "ok"
    /\ (loc[r].kind = "start" /\ GatherFailed(r)) =>
         /\ ~SynthesisStarted(r)
         /\ pc[r] \in {"gather", "done"}

\* C14 witness: one request has been through synthesis after both of its
\* chains completed, while in another the question chain has completed
\* before the introduction chain.
C14_Witness ==
  \E r, q \in Req :
    /\ pc[r] = "store"
    /\ loc[r].greeting_audio_b64 # "None"
    /\ GatherSucceeded(r)
    /\ pc[q] = "gather"
    /\ loc[q].questions_task.st = "ok"
    /\ loc[q].intro_task = "pending"

\* C15: every submit_response request eventually completes with the success
\* or the error response, given that every external call returns and the
\* handle is PROCESSING for finitely many polls; and the loop queries the
\* handle again while and only while the last state seen is PROCESSING, so a
\* request leaves the loop only on a state other than PROCESSING or on a
\* failed query.
C15_SubmitCompletes ==
  /\ \A r \in Req :
       pc[r] \in SubmitPcs ~>
         (pc[r] = "done" /\ loc[r].kind = "submit"
                         /\ loc[r].response.status \in {200, 500})
  /\ [][\A r \in Req :
          /\ ( /\ pc[r] = "poll"
               /\ loc[r].gemini_file.state = "PROCESSING"
               /\ <<pc'[r], loc'[r]>> # <<pc[r], loc[r]>> ) =>
               \/ /\ pc'[r] = "poll"
                  /\ loc'[r].gemini_file.name = loc[r].gemini_file.name
                  /\ loc'[r].pending = NoResult
                  /\ \/ /\ loc'[r].gemini_file.state = "PROCESSING"
                        /\ loc'[r].polls = loc[r].polls + 1
                     \/ loc'[r].gemini_file.state \in {"READY", "FAILED"}
               \/ /\ pc'[r] = "finally"
                  /\ loc'[r].pending = Raise("PollError")
                  /\ loc'[r].gemini_file = loc[r].gemini_file
          /\ ( /\ pc[r] = "poll"
               /\ loc[r].gemini_file.state # "PROCESSING"
               /\ <<pc'[r], loc'[r]>> # <<pc[r], loc[r]>> ) =>
               /\ pc'[r] = "finally"
               /\ loc'[r].gemini_file = loc[r].gemini_file
               /\ loc'[r].polls = loc[r].polls]_vars

\* C15 witness: a submit_response request has completed after the handle was
\* seen PROCESSING at upload and again at a poll before it turned READY.
C15_Witness ==
  \E r \in Req :
    /\ pc[r] = "done"
    /\ loc[r].kind = "submit"
    /\ loc[r].polls = MaxPolls
    /\ loc[r].gemini_file.state = "READY"
    /\ loc[r].response.status = 200

\* C16: when a start_interview request has completed with success, the
\* session is exactly the role title of that request, the questions parsed
\* from the raw text generated for it, and no responses.
C16_StartResetsSession ==
  \A r \in Req :
    StartSucceeded(r) =>
      /\ DOMAIN interview_data = {"role_title", "questions", "responses"}
      /\ interview_data["responses"] = <<>>
      /\ interview_data["role_title"] = loc[r].role_title
      /\ interview_data["questions"] = loc[r].response.content.questions
      /\ interview_data["questions"] = ParseQuestions(loc[r].questions_task.raw)

\* C16 witness: a start_interview for another role has completed while a
\* report request that read the previous interview's responses is still
\* waiting for its evaluation.
C16_Witness ==
  \E r, q \in Req :
    /\ StartSucceeded(r)
    /\ pc[q] = "evaluate"
    /\ loc[q].full_transcription # <<>>
    /\ loc[q].role_title \in Roles \ {loc[r].role_title}
    /\ interview_data["responses"] = <<>>

\* Where the i-th response begins in the joined text, less one.
RECURSIVE Offset(_, _)
Offset(responses, i) ==
  IF i = 1 THEN 0
  ELSE Offset(responses, i - 1) + Len(responses[i - 1]) + 2

\* text is the responses in their order with a blank line (two line breaks)
\* between consecutive ones, and nothing else.
BlankLineJoined(text, responses) ==
  LET n == Len(responses)
  IN  /\ Len(text) = IF n = 0 THEN 0
                     ELSE Offset(responses, n) + Len(responses[n])
      /\ \A i \in 1..n :
           SubSeq(text, Offset(responses, i) + 1,
                  Offset(responses, i) + Len(responses[i])) = responses[i]
      /\ \A i \in 2..n :
           /\ text[Offset(responses, i) - 1] = "\n"
           /\ text[Offset(responses, i)] = "\n"

\* C17: the transcript a report request passes to evaluate_transcription is
\* the session's responses at that moment, in stored order, joined by a
\* blank line, and the role argument is the session's role title ('N/A'
\* when there is none), whatever the number of responses and of questions.
C17_ReportJoinsResponses ==
  [][\A r \in Req :
       (pc[r] = "idle" /\ loc'[r].kind = "report") =>
         /\ BlankLineJoined(loc'[r].full_transcription,
                            DictGet(interview_data, "responses", <<>>))
         /\ loc'[r].role_title =
              IF "role_title" \in DOMAIN interview_data
              THEN interview_data["role_title"]
              ELSE DefaultRoleTitle]_vars

\* C17 witness: a report request is waiting for the evaluation of two
\* responses joined by a blank line, in a session whose number of questions
\* is not two.
C17_Witness ==
  \E r \in Req :
    /\ pc[r] = "evaluate"
    /\ DictGet(interview_data, "responses", <<>>) = << <<"a">>, <<>> >>
    /\ loc[r].full_transcription = <<"a", "\n", "\n">>
    /\ loc[r].role_title = interview_data["role_title"]
    /\ Len(interview_data["questions"]) # 2

\* C18: the local file of a submit_response request is its own: from the
\* moment the request has opened it until transcribe_video_file has taken
\* it, the file is there, whatever another request with the same filename
\* does in between, so no upload fails for want of the file.
C18_LocalPathScoped ==
  \A r \in Req :
    pc[r] \in {"read", "upload"} => VideoPath(loc[r].filename) \in files

\* C19: the step by which a submit_response request ends with the error
\* response leaves interview_data as it was, and so does every step of a
\* submit_response request before its last.
C19_FailedSubmitLeavesSession ==
  [][\A r \in Req :
       /\ ( /\ pc[r] \in SubmitPcs \cup {"idle"}
            /\ pc'[r] = "done"
            /\ loc'[r].kind = "submit"
            /\ loc'[r].response.status = 500 ) =>
            /\ interview_data' = interview_data
            /\ ~loc'[r].appended
       /\ ( /\ pc'[r] \in SubmitPcs
            /\ <<pc'[r], loc'[r]>> # <<pc[r], loc[r]>> ) =>
            interview_data' = interview_data]_vars

\* C19 witness: a submit_response request has ended with the error response
\* because the handle reached FAILED, and the session with an earlier
\* response in it is still there.
C19_Witness ==
  \E r \in Req :
    /\ pc[r] = "done"
    /\ loc[r].kind = "submit"
    /\ loc[r].response.status = 500
    /\ loc[r].caught = "Gemini file processing failed."
    /\ DictGet(interview_data, "responses", <<>>) = << <<"a">> >>
    /\ "questions" \in DOMAIN interview_data

\* The part of the session a start_interview writes besides the responses.
Heading(d) ==
  <<DOMAIN d \cap {"role_title", "questions"},
    DictGet(d, "role_title", ""), DictGet(d, "questions", <<>>)>>

\* C20: the session has either none of its three keys or all of them; its
\* role title and questions change only together, in the one step in which
\* a start_interview request stores its own role title and its own
\* questions and empties the responses; and a report request reads the role
\* title and the responses of one and the same state of the session.
C20_SessionNeverTorn ==
  /\ [](DOMAIN interview_data \in
          {{}, {"role_title", "questions", "responses"}})
  /\ [][/\ Heading(interview_data') # Heading(interview_data) =>
             \E r \in Req :
               /\ pc[r] = "store" /\ pc'[r] = "done"
               /\ loc'[r].response.status = 200
               /\ interview_data'["role_title"] = loc[r].role_title
               /\ interview_data'["questions"] =
                    loc'[r].response.content.questions
               /\ interview_data'["responses"] = <<>>
               /\ \A q \in Req \ {r} : pc'[q] = pc[q] /\ loc'[q] = loc[q]
        /\ \A r \in Req :
             (pc[r] = "idle" /\ loc'[r].kind = "report") =>
               /\ loc'[r].role_title = RoleTitle(interview_data)
               /\ loc'[r].full_transcription = FullTranscription(interview_data)
               /\ interview_data' = interview_data]_vars

\* C20 witness: a start_interview for another role has replaced the session
\* while a submit_response request accepted before it is still suspended in
\* its read.
C20_Witness ==
  \E r, q \in Req :
    /\ StartSucceeded(r)
    /\ pc[q] = "read"
    /\ interview_data["role_title"] = loc[r].role_title
    /\ interview_data["questions"] = loc[r].response.content.questions
    /\ interview_data["questions"] # <<>>

====
